---------------------------- MODULE Spec2Model ----------------------------
(***************************************************************************)
(* The example programs of cooking-with-webpack: the hello module, the     *)
(* part-1 entry script, the part-2 entry script (a keyup listener that     *)
(* inserts greetings into the page) and the two revisions of the bundler   *)
(* configuration.                                                          *)
(*                                                                         *)
(* A JavaScript string is a sequence of one-character strings, so that     *)
(* concatenation, escaping and pattern matching are computed character by  *)
(* character.                                                              *)
(***************************************************************************)
EXTENDS Integers, Sequences, FiniteSets, TLC

VARIABLES
    program,       \* which program of the repository is running
    pc,            \* position of the running script
    page,          \* the document: which of the two queried elements it holds
    input,         \* index.js: const input  (an element reference or null)
    hellos,        \* index.js: const hellos (an element reference or null)
    listeners,     \* keyup listeners registered on the input element, in order
    value,         \* the input element's value
    html,          \* the #hellos container's content: inserted fragments, in order
    uncaught,      \* uncaught exceptions reported so far, in order
    log,           \* history: the keyup events dispatched so far
    handlerCalls,  \* history: how many times a keyup listener was invoked
    console,       \* part 1: the lines printed by console.log
    call,          \* hello.js: the last call of the module's export, with its results
    request,       \* bundler: the file being resolved
    applied        \* bundler: the loader chain each configuration revision applies

vars == << program, pc, page, input, hellos, listeners, value, html, uncaught,
           log, handlerCalls, console, call, request, applied >>

-----------------------------------------------------------------------------
(* Bounds *)

\* keyup events dispatched in one run
MaxEvents == 3

\* parts a generated file name is put together from
MaxParts == 3

-----------------------------------------------------------------------------
(* JavaScript values and strings *)

Undefined == [t |-> "undefined"]
Null      == [t |-> "null"]
Str(s)    == [t |-> "string", s |-> s]

None == [t |-> "none"]

\* string literals of the sources
World      == <<"W", "o", "r", "l", "d">>
Nick       == <<"N", "i", "c", "k">>
HelloComma == <<"H", "e", "l", "l", "o", ",", " ">>
Bang       == <<"!">>
Empty      == << >>

\* ToString of the values the model passes around (string concatenation with +)
JSToString(v) ==
    CASE v.t = "string"    -> v.s
      [] v.t = "undefined" -> <<"u", "n", "d", "e", "f", "i", "n", "e", "d">>
      [] v.t = "null"      -> <<"n", "u", "l", "l">>

\* names a user types, and the arguments hello is called with
Names  == { Empty, Nick, World, <<"<", "b", ">">>, <<"A", "&", "B">> }
Values == { Undefined, Null } \cup { Str(s) : s \in Names }

-----------------------------------------------------------------------------
(* hello.js, part 1 (CommonJS, string concatenation) *)

\* the mutant: the greeting without its punctuation, 'Hello ' + name
helloNoPunctuation(name) ==
    LET n == IF name = Undefined THEN Str(World) ELSE name
    IN  <<"H", "e", "l", "l", "o", " ">> \o JSToString(n)

\* the mutant: a falsy test (!name) in place of name === undefined
helloFalsy(name) ==
    LET n == IF name = Undefined \/ name = Null \/ name = Str(Empty)
             THEN Str(World) ELSE name
    IN  HelloComma \o JSToString(n) \o Bang

hello(name) ==
    LET n == IF name = Undefined THEN Str(World) ELSE name
    IN  HelloComma \o JSToString(n) \o Bang

-----------------------------------------------------------------------------
(* hello.hbs and hello.js, part 2 (the handlebars template) *)

\* the template text before and after {{name}}
TplBefore == <<
    "<","d","i","v"," ","c","l","a","s","s","=","\"","H","e","l","l","o","\"",
    ">","\n"," "," ","<","h","3"," ","c","l","a","s","s","=","\"","H","e","l",
    "l","o","-","t","i","t","l","e","\"",">","H","e","l","l","o",","," " >>
TplAfter == <<
    "!","<","/","h","3",">","\n"," "," ","<","p",">","T","h","e"," ","b","e",
    "s","t"," ","a","n","d"," ","m","o","s","t"," ","b","e","a","u","t","i",
    "f","u","l"," ","t","h","i","n","g","s"," ","i","n"," ","t","h","e"," ",
    "w","o","r","l","d"," ","c","a","n","n","o","t"," ","b","e"," ","s","e",
    "e","n"," ","o","r"," ","e","v","e","n"," ","t","o","u","c","h","e","d",
    " ","-"," ","t","h","e","y"," ","m","u","s","t"," ","b","e"," ","f","e",
    "l","t"," ","w","i","t","h"," ","t","h","e"," ","h","e","a","r","t",".",
    "<","/","p",">","\n","<","/","d","i","v",">" >>

\* the character U+0060, which a TLA+ string cannot hold
Backquote == "U+0060"

\* {{name}} inserts the value HTML-escaped; null and undefined render as nothing
EscapeChar(c) ==
    CASE c = "&"  -> <<"&", "a", "m", "p", ";">>
      [] c = "<"  -> <<"&", "l", "t", ";">>
      [] c = ">"  -> <<"&", "g", "t", ";">>
      [] c = "\"" -> <<"&", "q", "u", "o", "t", ";">>
      [] c = "'"  -> <<"&", "#", "x", "2", "7", ";">>
      [] c = Backquote -> <<"&", "#", "x", "6", "0", ";">>
      [] c = "="  -> <<"&", "#", "x", "3", "D", ";">>
      [] OTHER    -> <<c>>

RECURSIVE EscapeString(_)
EscapeString(s) ==
    IF s = << >> THEN << >> ELSE EscapeChar(Head(s)) \o EscapeString(Tail(s))

EscapeExpression(v) ==
    IF v = Undefined \/ v = Null THEN << >> ELSE EscapeString(JSToString(v))

\* the compiled template: helloTpl(context), require('./hello.hbs')(context)
helloTpl(context) == TplBefore \o EscapeExpression(context.name) \o TplAfter

\* hello.js, CommonJS revision: an explicit test for undefined
helloCommonJS(name) ==
    LET n == IF name = Undefined THEN Str(World) ELSE name
    IN  helloTpl([name |-> n])

\* the mutant: the default taken for null as well as for undefined
DefaultParameterNullish(arg, default) ==
    IF arg = Undefined \/ arg = Null THEN default ELSE arg

\* an ES2015 default parameter: the default is taken iff the argument is undefined
DefaultParameter(arg, default) == IF arg = Undefined THEN default ELSE arg

\* hello.js, ES2015 revision: export default function(name = 'World')
helloES2015(name) ==
    LET n == DefaultParameter(name, Str(World))
    IN  helloTpl([name |-> n])

-----------------------------------------------------------------------------
(* webpack.config.js, the two revisions *)

\* __dirname and path.join
Dirname == <<"/","p","r","o","j","e","c","t">>
PathJoin(a, b) == a \o <<"/">> \o b

\* a regular expression of the configurations: /\.ext$/ or /(word)/
EndsWith(lit) == [re |-> "suffix", lit |-> lit]
Contains(lit) == [re |-> "contains", lit |-> lit]

\* the mutant: the babel rule of the older revision without its exclude
ConfigLoadersNoExclude == [
    entry  |-> PathJoin(Dirname, <<"s","r","c","/","i","n","d","e","x",".","j","s">>),
    output |-> [ path     |-> PathJoin(Dirname, <<"d","i","s","t">>),
                 filename |-> <<"i","n","d","e","x",".","b","u","n","d","l","e",".","j","s">> ],
    module |-> [ loaders |-> <<
        [ test |-> EndsWith(<<".","h","t","m","l">>), loader |-> <<"h","t","m","l">> ],
        [ test |-> EndsWith(<<".","h","b","s">>), loader |-> <<"h","a","n","d","l","e","b","a","r","s">> ],
        [ test |-> EndsWith(<<".","c","s","s">>), loaders |-> << <<"s","t","y","l","e">>, <<"c","s","s">> >> ],
        [ test   |-> EndsWith(<<".","j","s">>),
          loader |-> <<"b","a","b","e","l","-","l","o","a","d","e","r">>,
          query  |-> [ presets |-> << <<"e","s","2","0","1","5">> >> ] ] >> ] ]

\* module.exports of the revision with module.rules
ConfigRules == [
    entry  |-> PathJoin(Dirname, <<"s","r","c","/","i","n","d","e","x",".","j","s">>),
    output |-> [ path     |-> PathJoin(Dirname, <<"d","i","s","t">>),
                 filename |-> <<"i","n","d","e","x",".","b","u","n","d","l","e",".","j","s">> ],
    module |-> [ rules |-> <<
        [ test |-> EndsWith(<<".","h","t","m","l">>),
          use  |-> << [ loader |-> <<"h","t","m","l","-","l","o","a","d","e","r">> ] >> ],
        [ test |-> EndsWith(<<".","h","b","s">>),
          use  |-> << [ loader |-> <<"h","a","n","d","l","e","b","a","r","s","-","l","o","a","d","e","r">> ] >> ],
        [ test |-> EndsWith(<<".","c","s","s">>),
          use  |-> << [ loader |-> <<"s","t","y","l","e","-","l","o","a","d","e","r">> ],
                      [ loader |-> <<"c","s","s","-","l","o","a","d","e","r">> ] >> ],
        [ test    |-> EndsWith(<<".","j","s">>),
          exclude |-> Contains(<<"n","o","d","e","_","m","o","d","u","l","e","s">>),
          use     |-> << [ loader |-> <<"b","a","b","e","l","-","l","o","a","d","e","r">>,
                           query  |-> [ presets |-> << <<"e","s","2","0","1","5">> >> ] ] >> ] >> ] ]

\* module.exports of the older revision, with module.loaders
ConfigLoaders == [
    entry  |-> PathJoin(Dirname, <<"s","r","c","/","i","n","d","e","x",".","j","s">>),
    output |-> [ path     |-> PathJoin(Dirname, <<"d","i","s","t">>),
                 filename |-> <<"i","n","d","e","x",".","b","u","n","d","l","e",".","j","s">> ],
    module |-> [ loaders |-> <<
        [ test |-> EndsWith(<<".","h","t","m","l">>), loader |-> <<"h","t","m","l">> ],
        [ test |-> EndsWith(<<".","h","b","s">>), loader |-> <<"h","a","n","d","l","e","b","a","r","s">> ],
        [ test |-> EndsWith(<<".","c","s","s">>), loaders |-> << <<"s","t","y","l","e">>, <<"c","s","s">> >> ],
        [ test    |-> EndsWith(<<".","j","s">>),
          exclude |-> Contains(<<"n","o","d","e","_","m","o","d","u","l","e","s">>),
          loader  |-> <<"b","a","b","e","l","-","l","o","a","d","e","r">>,
          query   |-> [ presets |-> << <<"e","s","2","0","1","5">> >> ] ] >> ] ]

Revisions == { "rules", "loaders" }

\* the rule list of a revision: module.rules or module.loaders
RuleList(rev) ==
    IF rev = "rules" THEN ConfigRules.module.rules ELSE ConfigLoaders.module.loaders

Has(r, key) == key \in DOMAIN r

\* the ordered loader chain of a record: use: [{loader}], loaders: [..] or loader: '..'
Chain(r) ==
    IF Has(r, "use") THEN [ i \in 1..Len(r.use) |-> r.use[i].loader ]
    ELSE IF Has(r, "loaders") THEN r.loaders
    ELSE << r.loader >>

\* the presets payload of a record: on the use entry (rules) or on the record (loaders)
Presets(r) ==
    IF Has(r, "use")
    THEN IF Has(r.use[1], "query") THEN r.use[1].query.presets ELSE None
    ELSE IF Has(r, "query") THEN r.query.presets ELSE None

Exclude(r) == IF Has(r, "exclude") THEN r.exclude ELSE None

\* does the string s hold lit at position i
HoldsAt(s, lit, i) ==
    /\ i >= 1
    /\ i + Len(lit) - 1 <= Len(s)
    /\ \A j \in 1..Len(lit) : s[i + j - 1] = lit[j]

\* the mutant: the test patterns without their $ anchor
MatchesUnanchored(re, s) == \E i \in 1..Len(s) : HoldsAt(s, re.lit, i)

\* RegExp.prototype.test for the two kinds of pattern
Matches(re, s) ==
    IF re.re = "suffix"
    THEN HoldsAt(s, re.lit, Len(s) - Len(re.lit) + 1)
    ELSE \E i \in 1..Len(s) : HoldsAt(s, re.lit, i)

\* a record applies to a file when its test matches and its exclude does not
Applies(r, file) ==
    /\ Matches(r.test, file)
    /\ ~ (Has(r, "exclude") /\ Matches(r.exclude, file))

\* the loaders a revision runs over a file: the chains of the records that apply
RECURSIVE ChainsFrom(_, _, _)
ChainsFrom(rules, i, file) ==
    IF i > Len(rules) THEN << >>
    ELSE (IF Applies(rules[i], file) THEN Chain(rules[i]) ELSE << >>)
         \o ChainsFrom(rules, i + 1, file)

LoadersFor(rev, file) == ChainsFrom(RuleList(rev), 1, file)

\* no file asked for yet
NoFile == << >>

\* the files of the tutorial, and names that hold one extension inside another
ListedFiles == {
    <<"s","r","c","/","i","n","d","e","x",".","j","s">>, <<"s","r","c","/","h","e","l","l","o",".","j","s">>, <<"s","r","c","/","s","t","y","l","e",".","c","s","s">>, <<"s","r","c","/","h","e","l","l","o",".","c","s","s">>,
    <<"s","r","c","/","h","e","l","l","o",".","h","t","m","l">>, <<"s","r","c","/","h","e","l","l","o",".","h","b","s">>, <<"i","n","d","e","x",".","h","t","m","l">>,
    <<"n","o","d","e","_","m","o","d","u","l","e","s","/","h","a","n","d","l","e","b","a","r","s","/","r","u","n","t","i","m","e",".","j","s">>, <<"n","o","d","e","_","m","o","d","u","l","e","s","/","x","/","x",".","c","s","s">>,
    <<"p","a","c","k","a","g","e",".","j","s","o","n">>,
    <<"s","r","c","/","h","e","l","l","o",".","h","t","m","l",".","j","s">>, <<"s","r","c","/","s","t","y","l","e",".","c","s","s",".","h","b","s">>,
    <<"n","o","d","e","_","m","o","d","u","l","e","s",".","j","s">>, <<"s","r","c","/","j","s">>, <<"s","r","c","/","a",".","j","s",".","m","a","p">>, <<"s","r","c","/","h","t","m","l">> }

\* the parts file names are put together from
NameParts == {
    <<"a">>, <<".","h","t","m","l">>, <<".","h","b","s">>,
    <<".","c","s","s">>, <<".","j","s">>, <<"n","o","d","e","_","m","o","d","u","l","e","s","/">> }

\* the names of at most n parts
RECURSIVE NamesOf(_)
NamesOf(n) ==
    IF n = 0 THEN { << >> }
    ELSE LET shorter == NamesOf(n - 1)
         IN  shorter \cup { s \o part : s \in shorter, part \in NameParts }

\* the files the bundler is asked for
Files == ListedFiles \cup (NamesOf(MaxParts) \ { << >> })

-----------------------------------------------------------------------------
(* The page and the DOM operations index.js uses *)

\* e.keyCode of the Enter key, and the keys the model presses (65 is the A key)
Enter == 13
KeyCodes == { Enter, 65 }

\* what a user types into the input
TypedNames == { Empty, Nick, <<"<", "b", ">">> }

\* index.html as the tutorial writes it: the input and the container are there
DocumentedPage == [ input |-> TRUE, hellos |-> TRUE ]
Pages == [ input : BOOLEAN, hellos : BOOLEAN ]

\* an element of the page
Element(name) == [ t |-> "element", name |-> name ]

\* document.querySelector: the element, or null when the page has none
QuerySelector(doc, selector) ==
    IF selector = ".js-add-hello"
    THEN (IF doc.input THEN Element("input") ELSE Null)
    ELSE (IF doc.hellos THEN Element("hellos") ELSE Null)

\* the mutant: the listener registered twice
AddEventListenerTwice(ls, listener) == ls \o << listener, listener >>

\* element.addEventListener(type, listener), on the list of keyup listeners
AddEventListener(ls, listener) == Append(ls, listener)

\* the mutant: the fragment inserted as the first child ('afterbegin')
InsertAfterBegin(content, position, text) == << text >> \o content

\* element.insertAdjacentHTML(position, text), on the element's content
InsertAdjacentHTML(content, position, text) ==
    CASE position = "beforeend"  -> Append(content, text)
      [] position = "afterbegin" -> << text >> \o content
      [] OTHER                   -> content

\* the DOM state a listener reads and writes
Dom(h, v, u) == [ html |-> h, value |-> v, uncaught |-> u ]

\* a keyup event dispatched on the input; e.target is the input element
KeyupEvent(k) == [ type |-> "keyup", keyCode |-> k, target |-> "input" ]

\* e.target.value: the input's value when the listener reads it
TargetValue(st, e) == Str(st.value)

-----------------------------------------------------------------------------
(* index.js, part 2 *)

\* the mutant: the input is cleared whatever the key
keyupClearsAlways(st, e) ==
    IF e.keyCode = Enter
    THEN IF hellos = Null
         THEN Dom(st.html, st.value, Append(st.uncaught, "TypeError"))
         ELSE Dom(InsertAdjacentHTML(st.html, "beforeend",
                                     helloES2015(TargetValue(st, e))),
                  Empty, st.uncaught)
    ELSE Dom(st.html, Empty, st.uncaught)

\* the mutant: the input is not cleared after the insertion
keyupKeepsValue(st, e) ==
    IF e.keyCode = Enter
    THEN IF hellos = Null
         THEN Dom(st.html, st.value, Append(st.uncaught, "TypeError"))
         ELSE Dom(InsertAdjacentHTML(st.html, "beforeend",
                                     helloES2015(TargetValue(st, e))),
                  st.value, st.uncaught)
    ELSE st

\* the mutant: a failure of the insertion is swallowed and the input cleared
keyupCatches(st, e) ==
    IF e.keyCode = Enter
    THEN IF hellos = Null
         THEN Dom(st.html, Empty, st.uncaught)
         ELSE Dom(InsertAdjacentHTML(st.html, "beforeend",
                                     helloES2015(TargetValue(st, e))),
                  Empty, st.uncaught)
    ELSE st

\* the listener of index.js: e => { if (e.keyCode === 13) { ... } }
\* hellos.insertAdjacentHTML throws a TypeError when hellos is null, before
\* anything is inserted and before input.value = '' is reached
keyupHandler(st, e) ==
    IF e.keyCode = Enter
    THEN IF hellos = Null
         THEN Dom(st.html, st.value, Append(st.uncaught, "TypeError"))
         ELSE Dom(InsertAdjacentHTML(st.html, "beforeend",
                                     helloES2015(TargetValue(st, e))),
                  Empty, st.uncaught)
    ELSE st

\* the listener of the ES5 revision: function(e) { if (e.keyCode === 13) { ... } }
keyupHandlerES5(st, e) ==
    IF e.keyCode = Enter
    THEN IF hellos = Null
         THEN Dom(st.html, st.value, Append(st.uncaught, "TypeError"))
         ELSE Dom(InsertAdjacentHTML(st.html, "beforeend",
                                     helloCommonJS(TargetValue(st, e))),
                  Empty, st.uncaught)
    ELSE st

\* native event dispatch: every registered listener is invoked once, in order
RECURSIVE Dispatch(_, _, _)
Dispatch(ls, st, e) ==
    IF ls = << >> THEN st ELSE Dispatch(Tail(ls), keyupHandler(st, e), e)

-----------------------------------------------------------------------------
(* The programs *)

Programs == { "hello.js", "part1/index.js", "part2/index.js", "webpack" }

InitWith(doc) ==
    /\ program \in Programs
    /\ pc = "start"
    /\ page = doc
    /\ input = None
    /\ hellos = None
    /\ listeners = << >>
    /\ value = Empty
    /\ html = << >>
    /\ uncaught = << >>
    /\ log = << >>
    /\ handlerCalls = 0
    /\ console = << >>
    /\ call = None
    /\ request = NoFile
    /\ applied = [ rev \in Revisions |-> << >> ]

\* the page of the tutorial
Init == InitWith(DocumentedPage)

\* any page: either queried element may be missing
InitAnyPage == \E doc \in Pages : InitWith(doc)

\* a caller of the hello module: the export applied to an argument
\* (no argument is the argument undefined)
CallHello(v) ==
    /\ program = "hello.js"
    /\ call' = [ arg      |-> v,
                 part1    |-> hello(v),
                 commonjs |-> helloCommonJS(v),
                 es2015   |-> helloES2015(v) ]
    /\ pc' = "called"
    /\ UNCHANGED << program, page, input, hellos, listeners, value, html,
                    uncaught, log, handlerCalls, console, request, applied >>

\* the mutant: the two calls in the other order
Part1LogNickFirst ==
    /\ program = "part1/index.js"
    /\ pc = "start"
    /\ console' = Append(console, hello(Str(Nick)))
    /\ pc' = "logged1"
    /\ UNCHANGED << program, page, input, hellos, listeners, value, html,
                    uncaught, log, handlerCalls, call, request, applied >>

\* part 1, index.js: console.log(hello())
Part1LogWorld ==
    /\ program = "part1/index.js"
    /\ pc = "start"
    /\ console' = Append(console, hello(Undefined))
    /\ pc' = "logged1"
    /\ UNCHANGED << program, page, input, hellos, listeners, value, html,
                    uncaught, log, handlerCalls, call, request, applied >>

\* part 1, index.js: console.log(hello('Nick'))
Part1LogNick ==
    /\ program = "part1/index.js"
    /\ pc = "logged1"
    /\ console' = Append(console, hello(Str(Nick)))
    /\ pc' = "done"
    /\ UNCHANGED << program, page, input, hellos, listeners, value, html,
                    uncaught, log, handlerCalls, call, request, applied >>

\* part 2, index.js run to its end: the two queries, then addEventListener,
\* which throws a TypeError when input is null
Startup ==
    /\ program = "part2/index.js"
    /\ pc = "start"
    /\ input' = QuerySelector(page, ".js-add-hello")
    /\ hellos' = QuerySelector(page, "#hellos")
    /\ IF input' = Null
       THEN /\ uncaught' = Append(uncaught, "TypeError")
            /\ pc' = "failed"
            /\ UNCHANGED listeners
       ELSE /\ listeners' = AddEventListener(listeners, "keyup")
            /\ pc' = "running"
            /\ UNCHANGED uncaught
    /\ UNCHANGED << program, page, value, html, log, handlerCalls, console,
                    call, request, applied >>

\* the user edits the input
Type(v) ==
    /\ program = "part2/index.js"
    /\ page.input
    /\ v # value
    /\ value' = v
    /\ UNCHANGED << program, pc, page, input, hellos, listeners, html, uncaught,
                    log, handlerCalls, console, call, request, applied >>

\* a keyup event is dispatched on the input, once the script has run
Keyup(k) ==
    /\ program = "part2/index.js"
    /\ pc = "running"
    /\ Len(log) < MaxEvents
    /\ LET e  == KeyupEvent(k)
           st == Dispatch(listeners, Dom(html, value, uncaught), e)
       IN  /\ html' = st.html
           /\ value' = st.value
           /\ uncaught' = st.uncaught
    /\ handlerCalls' = handlerCalls + Len(listeners)
    /\ log' = Append(log, [ keyCode |-> k, value |-> value ])
    /\ UNCHANGED << program, pc, page, input, hellos, listeners, console, call,
                    request, applied >>

\* the bundler resolves a file under each revision of the configuration
Resolve(file) ==
    /\ program = "webpack"
    /\ request' = file
    /\ applied' = [ rev \in Revisions |-> LoadersFor(rev, file) ]
    /\ pc' = "resolved"
    /\ UNCHANGED << program, page, input, hellos, listeners, value, html,
                    uncaught, log, handlerCalls, console, call >>

Next ==
    \/ \E v \in Values : CallHello(v)
    \/ Part1LogWorld
    \/ Part1LogNick
    \/ Startup
    \/ \E v \in TypedNames : Type(v)
    \/ \E k \in KeyCodes : Keyup(k)
    \/ \E file \in Files : Resolve(file)

Spec == Init /\ [][Next]_vars

SpecAnyPage == InitAnyPage /\ [][Next]_vars

-----------------------------------------------------------------------------
(* Properties *)

HelloWorldText == <<"H","e","l","l","o",","," ","W","o","r","l","d","!">>
HelloNickText  == <<"H","e","l","l","o",","," ","N","i","c","k","!">>
HelloBlankText == <<"H","e","l","l","o",","," ","!">>

Called == program = "hello.js" /\ call # None

\* C1: hello() returns "Hello, World!", hello("Nick") returns "Hello, Nick!", and
\* for every string name hello(name) is "Hello, " followed by name followed by "!".
C1_Greeting ==
    Called =>
        /\ call.arg = Undefined => call.part1 = HelloWorldText
        /\ call.arg = Str(Nick) => call.part1 = HelloNickText
        /\ call.arg.t = "string" => call.part1 = HelloComma \o call.arg.s \o Bang

C1_Witness == Called /\ call.arg = Str(Nick) /\ call.part1 = HelloNickText

\* C2: hello falls back to "World" if and only if its argument is undefined; any
\* other argument, the empty string included, is used as the name as it is (in
\* the handlebars revision too, only undefined is rendered as "World").
C2_FallbackOnlyForUndefined ==
    Called =>
        /\ call.arg = Undefined => call.part1 = HelloComma \o World \o Bang
        /\ call.arg # Undefined =>
               call.part1 = HelloComma \o JSToString(call.arg) \o Bang
        /\ call.arg = Str(Empty) =>
               call.part1 = HelloBlankText /\ call.part1 # HelloWorldText
        /\ call.part1 = HelloWorldText =>
               call.arg = Undefined \/ call.arg = Str(World)
        /\ call.commonjs = helloTpl([name |-> Str(World)]) <=>
               (call.arg = Undefined \/ call.arg = Str(World))

C2_Witness == Called /\ call.arg = Str(Empty) /\ call.part1 = HelloBlankText

Running == program = "part2/index.js" /\ pc = "running"

\* the event a step dispatches, when it dispatches one
Dispatches == log' # log
Dispatched == log'[Len(log')]

\* C3: a keyup with keyCode 13 on the input appends hello(the input's value) as the
\* last content of the #hellos container and then sets the input's value to ''.
C3_EnterAppendsAndClears ==
    [][ (Dispatches /\ Dispatched.keyCode = Enter) =>
            /\ html' = Append(html, helloES2015(Str(value)))
            /\ value' = Empty ]_vars

C3_Witness ==
    /\ Running
    /\ Len(log) >= 2
    /\ log[Len(log)].keyCode = Enter
    /\ log[Len(log)].value = Nick
    /\ Len(html) >= 2
    /\ html[Len(html)] = helloES2015(Str(Nick))
    /\ value = Empty

\* C10: a keyup whose keyCode is not 13 leaves the #hellos container's content and
\* the input's value unchanged.
C10_OtherKeysChangeNothing ==
    [][ (Dispatches /\ Dispatched.keyCode # Enter) =>
            /\ html' = html
            /\ value' = value ]_vars

C10_Witness ==
    /\ Running
    /\ log # << >>
    /\ log[Len(log)].keyCode # Enter
    /\ log[Len(log)].value = Nick
    /\ value = Nick
    /\ html # << >>

\* a loader's name without a trailing '-loader'
LoaderSuffix == <<"-","l","o","a","d","e","r">>
StripLoader(name) ==
    IF HoldsAt(name, LoaderSuffix, Len(name) - Len(LoaderSuffix) + 1)
    THEN SubSeq(name, 1, Len(name) - Len(LoaderSuffix))
    ELSE name
StripAll(chain) == [ i \in 1..Len(chain) |-> StripLoader(chain[i]) ]

\* C4: the two revisions of the configuration have the same entry, output.path and
\* output.filename, and rule lists of the same length whose i-th records have the
\* same test, exclude, presets and ordered loader chain (html; handlebars; style
\* then css; babel), loader names taken up to the '-loader' suffix.
C4_RevisionsAgree ==
    LET new == RuleList("rules")
        old == RuleList("loaders")
    IN  /\ ConfigRules.entry = ConfigLoaders.entry
        /\ ConfigRules.output.path = ConfigLoaders.output.path
        /\ ConfigRules.output.filename = ConfigLoaders.output.filename
        /\ Len(new) = Len(old)
        /\ \A i \in 1..Len(new) :
               /\ new[i].test = old[i].test
               /\ Exclude(new[i]) = Exclude(old[i])
               /\ Presets(new[i]) = Presets(old[i])
               /\ StripAll(Chain(new[i])) = StripAll(Chain(old[i]))
        /\ [ i \in 1..Len(old) |-> StripAll(Chain(old[i])) ] =
               << << <<"h","t","m","l">> >>, << <<"h","a","n","d","l","e","b","a","r","s">> >>,
                  << <<"s","t","y","l","e">>, <<"c","s","s">> >>, << <<"b","a","b","e","l">> >> >>
        /\ (program = "webpack" /\ request # NoFile) =>
               StripAll(applied["rules"]) = StripAll(applied["loaders"])

C4_Witness ==
    /\ program = "webpack"
    /\ request = <<"s","r","c","/","s","t","y","l","e",".","c","s","s">>
    /\ applied["rules"] = << <<"s","t","y","l","e","-","l","o","a","d","e","r">>, <<"c","s","s","-","l","o","a","d","e","r">> >>
    /\ applied["loaders"] = << <<"s","t","y","l","e">>, <<"c","s","s">> >>

\* C5: one keyup listener is registered on the input, once, at startup, and it is
\* never removed or registered again; every keyup dispatched invokes the handler
\* exactly once and every Enter keyup makes exactly one insertion.
C5_OneListener ==
    program = "part2/index.js" =>
        /\ pc = "start" => listeners = << >>
        /\ pc = "running" => Len(listeners) = 1
        /\ handlerCalls = Len(log)
        /\ Len(html) = Cardinality({ i \in 1..Len(log) : log[i].keyCode = Enter })

C5_Witness ==
    /\ Running
    /\ Len(listeners) = 1
    /\ Len(log) = 3
    /\ handlerCalls = 3
    /\ Len(html) = 2

\* C6: the ES2015 hello (default parameter) and the CommonJS hello (test for
\* undefined) return the same result for every argument, undefined, null and ''
\* included; the arrow-function handler and the function-expression handler have
\* the same effect on the container and the input for every event.
C6_RevisionsEquivalent ==
    /\ Called => call.es2015 = call.commonjs
    /\ \A k \in KeyCodes :
           keyupHandler(Dom(html, value, uncaught), KeyupEvent(k)) =
               keyupHandlerES5(Dom(html, value, uncaught), KeyupEvent(k))

C6_Witness ==
    /\ Called
    /\ call.arg = Null
    /\ call.es2015 = TplBefore \o TplAfter
    /\ call.commonjs = call.es2015

PrintedLines == << HelloWorldText, HelloNickText >>

\* C7: the part-1 entry script prints exactly two lines, "Hello, World!" and then
\* "Hello, Nick!", and nothing else.
C7_Part1Output ==
    program = "part1/index.js" =>
        /\ pc = "start" => console = << >>
        /\ pc = "logged1" => console = SubSeq(PrintedLines, 1, 1)
        /\ pc = "done" => console = PrintedLines

C7_Witness == program = "part1/index.js" /\ pc = "done" /\ Len(console) = 2

\* the step that runs index.js of part 2
StartsUp == program = "part2/index.js" /\ pc = "start" /\ pc' # "start"

\* an Enter keyup whose insertion fails: the failure is reported uncaught, nothing
\* is inserted and the input's value is not cleared
EnterFailureEscapes ==
    (Dispatches /\ Dispatched.keyCode = Enter /\ ~ page.hellos) =>
        /\ uncaught' = Append(uncaught, "TypeError")
        /\ html' = html
        /\ value' = value

\* C9 as claimed: a failure while an Enter keyup is handled propagates and the
\* input's value is not cleared; if either queried element is missing at startup,
\* the script fails and no listener is registered.
C9_AsClaimed ==
    [][ /\ EnterFailureEscapes
        /\ (StartsUp /\ (~ page.input \/ ~ page.hellos)) =>
               /\ pc' = "failed"
               /\ listeners' = << >> ]_vars

\* C9, amended: a failure while an Enter keyup is handled propagates and the
\* input's value is not cleared; if the input is missing at startup, the script
\* fails and no listener is registered; if only the #hellos container is missing,
\* the script runs to its end and the listener is registered, and every Enter
\* keyup then fails in the handler.
C9_NothingCaught ==
    [][ /\ EnterFailureEscapes
        /\ (StartsUp /\ ~ page.input) =>
               /\ pc' = "failed"
               /\ listeners' = << >>
               /\ uncaught' = Append(uncaught, "TypeError")
        /\ (StartsUp /\ page.input /\ ~ page.hellos) =>
               /\ pc' = "running"
               /\ Len(listeners') = 1
               /\ hellos' = Null
               /\ uncaught' = uncaught ]_vars

C9_Witness ==
    /\ Running
    /\ ~ page.hellos
    /\ log # << >>
    /\ log[Len(log)].keyCode = Enter
    /\ log[Len(log)].value = Nick
    /\ value = Nick
    /\ html = << >>
    /\ uncaught # << >>

\* the greetings of the Enter events of a history, oldest first
RECURSIVE Greetings(_)
Greetings(events) ==
    IF events = << >> THEN << >>
    ELSE LET e == events[Len(events)]
             before == Greetings(SubSeq(events, 1, Len(events) - 1))
         IN  IF e.keyCode = Enter
             THEN Append(before, helloES2015(Str(e.value)))
             ELSE before

\* C11: after any sequence of keyup events and typing, the #hellos container holds
\* exactly one greeting per Enter keyup handled so far, in the order of the events,
\* each built from the input's value at the time of its event; content is only
\* appended at the end, never removed, replaced or reordered; and the input's
\* value is empty immediately after every handled Enter.
C11_ContainerIsHistory ==
    /\ [](program = "part2/index.js" => html = Greetings(log))
    /\ [][ /\ Len(html') >= Len(html)
           /\ SubSeq(html', 1, Len(html)) = html
           /\ (Dispatches /\ Dispatched.keyCode = Enter) =>
                  /\ Len(html') = Len(html) + 1
                  /\ value' = Empty ]_vars

C11_Witness ==
    /\ Running
    /\ Len(log) = 3
    /\ log[1].keyCode = Enter /\ log[1].value = Nick
    /\ log[2].keyCode # Enter
    /\ log[3].keyCode = Enter /\ log[3].value = <<"<", "b", ">">>
    /\ html = << helloES2015(Str(Nick)), helloES2015(Str(<<"<", "b", ">">>)) >>
    /\ value = Empty

\* the extension each record of the rule lists is for, in the lists' order
Extensions == << <<".","h","t","m","l">>, <<".","h","b","s">>, <<".","c","s","s">>, <<".","j","s">> >>

\* the last n characters of a name
LastChars(name, n) ==
    IF n > Len(name) THEN name ELSE SubSeq(name, Len(name) - n + 1, Len(name))
EndsIn(name, ext) == LastChars(name, Len(ext)) = ext

\* the records of a revision whose test pattern matches a name
Matching(rev, name) ==
    { i \in 1..Len(RuleList(rev)) : Matches(RuleList(rev)[i].test, name) }

NodeModules == <<"n","o","d","e","_","m","o","d","u","l","e","s">>
InNodeModules(name) ==
    \E i \in 1..(Len(name) - Len(NodeModules) + 1) :
        SubSeq(name, i, i + Len(NodeModules) - 1) = NodeModules

\* C12: in both revisions the test patterns are mutually exclusive: a file name is
\* matched by at most one rule, a name ending in .html, .hbs, .css or .js is matched
\* by exactly the rule for that extension, and a .js file whose path contains
\* node_modules is excluded and so transformed by no rule.
C12_RulesExclusive ==
    (program = "webpack" /\ request # NoFile) =>
        \A rev \in Revisions :
            /\ Cardinality(Matching(rev, request)) <= 1
            /\ \A i \in 1..Len(Extensions) :
                   EndsIn(request, Extensions[i]) => Matching(rev, request) = { i }
            /\ (EndsIn(request, Extensions[4]) /\ InNodeModules(request)) =>
                   applied[rev] = << >>
            /\ (Matching(rev, request) = { }) => applied[rev] = << >>

C12_Witness ==
    /\ program = "webpack"
    /\ request = <<"n","o","d","e","_","m","o","d","u","l","e","s","/","h","a","n","d","l","e","b","a","r","s","/","r","u","n","t","i","m","e",".","j","s">>
    /\ \A rev \in Revisions :
           Matching(rev, request) = { 4 } /\ applied[rev] = << >>

=============================================================================
